---- MODULE Spec2Model ----
(***************************************************************************)
(* advPoints.py: the arithmetic layer that turns ecliptic longitudes into  *)
(* (DMS, zodiac sign, nakshatra, pada) tuples and derives the Sphuta,      *)
(* Gulika and Mandi points.  Every function is pure; the state machine     *)
(* below records one call at a time: the function, its arguments and what  *)
(* the call produced (a value or a raised exception); calls are            *)
(* synchronous, so a call starts only when no other is in progress.        *)
(*                                                                         *)
(* Numbers.  A Python float is modelled as a record                        *)
(*     [k |-> "fin", g |-> n, t |-> c]   or   k \in {"nan","inf","-inf"}.  *)
(* A finite value is g/Unit degrees when g # 0, and c*tau when g = 0,      *)
(* where tau is a positive magnitude far below the spacing of the doubles  *)
(* near any non-zero grid value (think 1e-300): adding it to a non-zero    *)
(* grid value is rounded away, exactly as IEEE addition does.  The grid    *)
(* values used as inputs are multiples of 1/128 degree (g a multiple of    *)
(* 6); they and all their sums, halves, remainders by 360 and by 30, and   *)
(* the products by 60 of their fractional parts are exact doubles, so on   *)
(* them integer arithmetic on g is what the interpreter computes.  The     *)
(* one input that is not such a dyadic value is the double 360/27 itself.  *)
(* The two literals 360/27 and 360/108 are not exact doubles; the rounding *)
(* they carry is tracked symbolically where the code uses them (pada).     *)
(***************************************************************************)
EXTENDS Integers, Sequences, FiniteSets, TLC

VARIABLES fn, args, ret

vars == <<fn, args, ret>>

\* grid units per degree: 1/256 degree, in thirds so that 360/27 is a grid point
Unit == 3 * 256

\* ------------------------------------------------------------------------
\* Python float values
\* ------------------------------------------------------------------------
Fin(g) == [k |-> "fin", g |-> g, t |-> 0]

Tiny(c) == [k |-> "fin", g |-> 0, t |-> c]

Deg(n) == Fin(n * Unit)

NaN == [k |-> "nan", g |-> 0, t |-> 0]

PosInf == [k |-> "inf", g |-> 0, t |-> 0]

NegInf == [k |-> "-inf", g |-> 0, t |-> 0]

IsFinite(v) == v.k = "fin"

\* unary minus
Neg(v) ==
    IF v.k = "fin" THEN [k |-> "fin", g |-> 0 - v.g, t |-> 0 - v.t]
    ELSE IF v.k = "inf" THEN NegInf
    ELSE IF v.k = "-inf" THEN PosInf
    ELSE NaN

\* float +: a tiny addend is rounded away next to a non-zero grid value
Add(a, b) ==
    IF a.k = "nan" \/ b.k = "nan" THEN NaN
    ELSE IF a.k # "fin" /\ b.k # "fin" THEN (IF a.k = b.k THEN a ELSE NaN)
    ELSE IF a.k # "fin" THEN a
    ELSE IF b.k # "fin" THEN b
    ELSE IF a.g + b.g # 0 THEN Fin(a.g + b.g)
    ELSE IF a.g = 0 THEN Tiny(a.t + b.t)
    ELSE Fin(0)

\* float -
Sub(a, b) == Add(a, Neg(b))

\* float / 2 (exact: inputs are even multiples of the grid unit)
Div2(a) ==
    IF a.k = "fin" THEN [k |-> "fin", g |-> a.g \div 2, t |-> a.t \div 2]
    ELSE a

\* float * n for a small integer n
MulInt(a, n) ==
    IF a.k = "fin" THEN [k |-> "fin", g |-> a.g * n, t |-> a.t * n]
    ELSE a

\* float % n for a positive whole number of degrees n.  CPython computes
\* fmod (exact, sign of the dividend) and, when the remainder is non-zero
\* and negative, adds the divisor; that addition is rounded, so a negative
\* remainder of tiny magnitude yields the divisor itself.  A non-finite
\* dividend gives nan, no exception.
PyMod(x, n) ==
    IF x.k # "fin" THEN NaN
    ELSE IF x.g # 0 THEN Fin(x.g % (n * Unit))
    ELSE IF x.t < 0 THEN Fin(n * Unit)
    ELSE x

\* float // n for a positive whole number of degrees n (floor of the quotient)
PyFloorDiv(x, n) ==
    IF x.k # "fin" THEN NaN
    ELSE IF x.g # 0 THEN Fin((x.g \div (n * Unit)) * Unit)
    ELSE IF x.t < 0 THEN Fin(0 - Unit)
    ELSE Fin(0)

\* int(x) of a finite float: truncation toward zero
PyInt(x) == IF x.g >= 0 THEN x.g \div Unit ELSE 0 - ((0 - x.g) \div Unit)

\* a weekday index, an int of Python, as it is kept among the arguments
IntArg(w) == [k |-> "int", g |-> w, t |-> 0]

\* no float in this position
NoValue == [k |-> "absent", g |-> 0, t |-> 0]

\* What a call produces: the exception raised, or the value returned with
\* its components by name.  A returned float is deg; the tuple (zodiac,
\* nakshatra, pada, sign_degree) of deg_to_zodiac keeps sign_degree in deg;
\* the tuple (dms_str, zodiac, nakshatra, pada) of format_result has no float.
Nothing ==
    [exc |-> "none", deg |-> NoValue, dms |-> "", zodiac |-> "", nakshatra |-> "", pada |-> 0]

Return(v) == [Nothing EXCEPT !.deg = v]

ReturnTuple(dms, zodiac, nakshatra, pada, sign_degree) ==
    [exc |-> "none", deg |-> sign_degree, dms |-> dms, zodiac |-> zodiac,
     nakshatra |-> nakshatra, pada |-> pada]

Raise(e) == [Nothing EXCEPT !.exc = e]

\* list[i] of Python: negative indices count from the end
PyHasIndex(list, i) == i >= 0 - Len(list) /\ i < Len(list)

PyIndex(list, i) == IF i >= 0 THEN list[i + 1] ELSE list[Len(list) + i + 1]

\* ------------------------------------------------------------------------
\* Constants
\* ------------------------------------------------------------------------
ZODIAC_SIGNS == <<
    "Aries", "Taurus", "Gemini", "Cancer", "Leo", "Virgo",
    "Libra", "Scorpio", "Sagittarius", "Capricorn", "Aquarius", "Pisces" >>

NAKSHATRAS == <<
    "Ashwini", "Bharani", "Krittika", "Rohini", "Mrigashira", "Ardra",
    "Punarvasu", "Pushya", "Ashlesha", "Magha", "Purva Phalguni", "Uttara Phalguni",
    "Hasta", "Chitra", "Swati", "Vishakha", "Anuradha", "Jyeshtha", "Mula",
    "Purva Ashadha", "Uttara Ashadha", "Shravana", "Dhanishta", "Shatabhisha",
    "Purva Bhadrapada", "Uttara Bhadrapada", "Revati" >>

\* The literal 360 / 27.  The double is 40/3 + 4*eps and the literal 360 / 108
\* is the double 10/3 + eps, with eps = 2^-51 / 3 degree; e counts eps.
NAK_SPAN == [g |-> (360 * Unit) \div 27, e |-> 4]

PADA_SPAN == [g |-> (360 * Unit) \div 108, e |-> 1]

\* a double as grid part plus rounding excess: none for a dyadic value, that
\* of the literal for the double 360/27 (the only non-dyadic input)
WithExcess(x) == [g |-> x.g, e |-> IF x.g % 3 = 0 THEN 0 ELSE NAK_SPAN.e]

\* x % (360 / 27) for x >= 0: fmod is exact, so the remainder of a dyadic x
\* that lies k spans up is short of its real value by 4*k*eps, and a dyadic
\* x on a real nakshatra boundary is just below k spans of the double
ModNakSpan(x) ==
    LET q0 == x.g \div NAK_SPAN.g
        kk == IF x.g % NAK_SPAN.g = 0 /\ q0 > 0 /\ x.e < NAK_SPAN.e * q0
              THEN q0 - 1 ELSE q0
    IN  [g |-> x.g - kk * NAK_SPAN.g, e |-> x.e - NAK_SPAN.e * kk]

\* int(r / (360 / 108)): the quotient is rounded to the nearest double, which
\* removes the excess of the divisor alone but not a deficit of 4*eps or more
IntDivPadaSpan(r) ==
    LET J == r.g \div PADA_SPAN.g
    IN  IF r.g % PADA_SPAN.g = 0 /\ r.e < 0 THEN J - 1 ELSE J

\* ------------------------------------------------------------------------
\* Utilities
\* ------------------------------------------------------------------------
normalize_deg(deg) == PyMod(deg, 360)

\* variant: a degree on a sign boundary is given to the sign that ends there
zodiac_index_closed(degree) ==
    IF degree.g > 0 /\ degree.g % (30 * Unit) = 0
    THEN PyInt(PyFloorDiv(degree, 30)) - 1
    ELSE PyInt(PyFloorDiv(degree, 30))

\* int(degree // 30), degree already normalized and finite
zodiac_index(degree) == PyInt(PyFloorDiv(degree, 30))

\* int((degree % 360) / (360 / 27)): the rounded quotient of a dyadic degree
\* on a real nakshatra boundary is the whole number itself, and the double
\* 360/27 divided by itself is 1, so the index is the floor of the real
\* quotient
nak_index(degree) == PyMod(degree, 360).g \div NAK_SPAN.g

\* int(((degree % (360 / 27)) % (360 / 27)) / (360 / 108)) + 1
pada_of(degree) ==
    IntDivPadaSpan(ModNakSpan(ModNakSpan(WithExcess(degree)))) + 1

deg_to_zodiac(degree0) ==
    LET degree == normalize_deg(degree0)
    IN  IF ~IsFinite(degree) THEN Raise("ValueError")
        ELSE IF ~PyHasIndex(ZODIAC_SIGNS, zodiac_index(degree)) THEN Raise("IndexError")
        ELSE IF ~PyHasIndex(NAKSHATRAS, nak_index(degree)) THEN Raise("IndexError")
        ELSE ReturnTuple("", PyIndex(ZODIAC_SIGNS, zodiac_index(degree)),
                         PyIndex(NAKSHATRAS, nak_index(degree)),
                         pada_of(degree),
                         PyMod(degree, 30))

\* f"{d}°{m}′{s}″"; the prime and double prime are written ' and "
dms_str(d, m, s) ==
    ToString(d) \o "°" \o ToString(m) \o "'" \o ToString(s) \o "\""

dms_d(sign_degree) == PyInt(sign_degree)

dms_m(sign_degree) ==
    PyInt(MulInt(Sub(sign_degree, Deg(dms_d(sign_degree))), 60))

\* variant: seconds rounded to the nearest instead of truncated
dms_s_rounded(sign_degree) ==
    PyInt(Add(MulInt(Sub(MulInt(Sub(sign_degree, Deg(dms_d(sign_degree))), 60),
                         Deg(dms_m(sign_degree))), 60), Fin(Unit \div 2)))

dms_s(sign_degree) ==
    PyInt(MulInt(Sub(MulInt(Sub(sign_degree, Deg(dms_d(sign_degree))), 60),
                     Deg(dms_m(sign_degree))), 60))

format_result(deg0) ==
    LET deg == normalize_deg(deg0)
        z == deg_to_zodiac(deg)
    IN  IF z.exc # "none" THEN z
        ELSE ReturnTuple(dms_str(dms_d(z.deg), dms_m(z.deg), dms_s(z.deg)),
                         z.zodiac, z.nakshatra, z.pada, NoValue)

\* ------------------------------------------------------------------------
\* Core point calculations
\* ------------------------------------------------------------------------
calc_bhrigu_bindu(moon_deg, rahu_deg) ==
    format_result(Div2(Add(moon_deg, rahu_deg)))

calc_prana_sphuta(lagna_deg, sun_deg, moon_deg) ==
    format_result(Add(Add(lagna_deg, sun_deg), moon_deg))

\* variant: Sun and Moon exchanged (the formula of Mrityu Sphuta)
calc_deha_sphuta_swapped(lagna_deg, sun_deg, moon_deg) ==
    format_result(Sub(Add(lagna_deg, sun_deg), moon_deg))

calc_deha_sphuta(lagna_deg, sun_deg, moon_deg) ==
    format_result(Sub(Add(lagna_deg, moon_deg), sun_deg))

calc_mrityu_sphuta(lagna_deg, sun_deg, moon_deg) ==
    format_result(Sub(Add(lagna_deg, sun_deg), moon_deg))

\* variant: the sum halved (the formula of Bhrigu Bindu)
calc_tithi_sphuta_halved(sun_deg, moon_deg) ==
    format_result(Div2(Add(sun_deg, moon_deg)))

calc_tithi_sphuta(sun_deg, moon_deg) ==
    format_result(Add(sun_deg, moon_deg))

calc_chatusphuta(lagna, sun, moon, gulika) ==
    format_result(Add(Add(Add(lagna, sun), moon), gulika))

calc_panchasphuta(lagna, sun, moon, gulika, mandi) ==
    format_result(Add(Add(Add(Add(lagna, sun), moon), gulika), mandi))

calc_yoga_sphuta(sun, moon) ==
    format_result(Add(sun, moon))

\* variant: the complement forgotten
calc_avayoga_sphuta_plain(sun, moon) ==
    format_result(PyMod(Add(sun, moon), 360))

calc_avayoga_sphuta(sun, moon) ==
    format_result(Sub(Deg(360), PyMod(Add(sun, moon), 360)))

gulika_portions == (0 :> 7) @@ (1 :> 6) @@ (2 :> 5) @@ (3 :> 4) @@ (4 :> 3) @@ (5 :> 2) @@ (6 :> 1)

mandi_portions == (0 :> 6) @@ (1 :> 5) @@ (2 :> 4) @@ (3 :> 3) @@ (4 :> 2) @@ (5 :> 1) @@ (6 :> 0)

\* portion * (720 / 8) minutes, then / 4 degrees: a multiple of 22.5 degrees
OffsetDeg(portion) == Fin((portion * (720 \div 8) * Unit) \div 4)

\* variant: the weekday index wrapped into the table instead of looked up
calc_gulika_wrapped(weekday, sunrise_deg) ==
    Return(normalize_deg(Add(sunrise_deg, OffsetDeg(gulika_portions[weekday % 7]))))

calc_gulika(weekday, sunrise_deg) ==
    IF weekday \notin DOMAIN gulika_portions THEN Raise("KeyError")
    ELSE Return(normalize_deg(Add(sunrise_deg, OffsetDeg(gulika_portions[weekday]))))

calc_mandi(weekday, sunrise_deg) ==
    IF weekday \notin DOMAIN mandi_portions THEN Raise("KeyError")
    ELSE Return(normalize_deg(Add(sunrise_deg, OffsetDeg(mandi_portions[weekday]))))

\* ------------------------------------------------------------------------
\* Inputs
\* ------------------------------------------------------------------------
\* whole turns added to or taken from the degrees handed to the utilities
MaxTurn == 1

\* weekday indices tried beyond each end of 0..6
WeekdaySlack == 1

\* whole turns by which one longitude is shifted in the periodicity checks
MaxK == 2

Turn == 360 * Unit

\* 1/128 degree: the spacing of the dyadic inputs
Grid == Unit \div 128

\* degrees in [0, 360): every multiple of 2.5 degrees (all sign and pada
\* boundaries that are dyadic, 247.5 among them) with its two grid
\* neighbours, and the grid points on either side of every nakshatra boundary
BaseG ==
    { (n * ((5 * Unit) \div 2) + c) % Turn : n \in 0..143, c \in {0 - Grid, 0, Grid} }
    \cup { ((i * NAK_SPAN.g) \div Grid) * Grid + c : i \in 0..26, c \in {0, Grid} }

NonFinite == {NaN, PosInf, NegInf}

DegreeInputs ==
    { Fin(g + k * Turn) : g \in BaseG, k \in (0 - MaxTurn)..MaxTurn }
    \cup { Fin(NAK_SPAN.g), Tiny(2), Tiny(0 - 2) } \cup NonFinite

\* longitudes for the two-argument formulas
Longitudes2 ==
    { Deg(0), Deg(10), Deg(50), Deg(100), Deg(260), Deg(0 - 20), Deg(370),
      Fin(123 * Unit + 74 * Grid), Tiny(2), Tiny(0 - 2) } \cup NonFinite

\* longitudes for the formulas of three and more arguments
Longitudes3 ==
    { Deg(0), Deg(10), Deg(350), Deg(0 - 20), Fin(123 * Unit + 74 * Grid),
      Tiny(0 - 2), NaN, PosInf }

Longitudes5 == { Deg(0), Deg(350), Fin(123 * Unit + 74 * Grid), Tiny(0 - 2), NegInf }

\* Gulika and Mandi longitudes as calc_gulika and calc_mandi return them
TemporalPoints == { Deg(0), Fin((495 * Unit) \div 2), Deg(360), NaN }

Weekdays == (0 - WeekdaySlack)..(6 + WeekdaySlack)

SunriseInputs ==
    { Deg(90), Deg(0), Fin((0 - 45 * Unit) \div 2), Fin((405 * Unit) \div 2),
      Deg(359), Fin(Turn - Grid), Deg(0 - 400), Deg(1000),
      Tiny(2), Tiny(0 - 2) } \cup NonFinite

\* ------------------------------------------------------------------------
\* The calls
\* ------------------------------------------------------------------------
Init ==
    /\ fn = "none"
    /\ args = <<>>
    /\ ret = Nothing

Call_normalize_deg ==
    \E deg \in DegreeInputs :
        /\ fn = "none"
        /\ fn' = "normalize_deg"
        /\ args' = <<deg>>
        /\ ret' = Return(normalize_deg(deg))

Call_deg_to_zodiac ==
    \E degree \in DegreeInputs :
        /\ fn = "none"
        /\ fn' = "deg_to_zodiac"
        /\ args' = <<degree>>
        /\ ret' = deg_to_zodiac(degree)

Call_format_result ==
    \E deg \in DegreeInputs :
        /\ fn = "none"
        /\ fn' = "format_result"
        /\ args' = <<deg>>
        /\ ret' = format_result(deg)

Call_calc_bhrigu_bindu ==
    \E moon_deg \in Longitudes2, rahu_deg \in Longitudes2 :
        /\ fn = "none"
        /\ fn' = "calc_bhrigu_bindu"
        /\ args' = <<moon_deg, rahu_deg>>
        /\ ret' = calc_bhrigu_bindu(moon_deg, rahu_deg)

Call_calc_prana_sphuta ==
    \E lagna_deg \in Longitudes3, sun_deg \in Longitudes3, moon_deg \in Longitudes3 :
        /\ fn = "none"
        /\ fn' = "calc_prana_sphuta"
        /\ args' = <<lagna_deg, sun_deg, moon_deg>>
        /\ ret' = calc_prana_sphuta(lagna_deg, sun_deg, moon_deg)

Call_calc_deha_sphuta ==
    \E lagna_deg \in Longitudes3, sun_deg \in Longitudes3, moon_deg \in Longitudes3 :
        /\ fn = "none"
        /\ fn' = "calc_deha_sphuta"
        /\ args' = <<lagna_deg, sun_deg, moon_deg>>
        /\ ret' = calc_deha_sphuta(lagna_deg, sun_deg, moon_deg)

Call_calc_mrityu_sphuta ==
    \E lagna_deg \in Longitudes3, sun_deg \in Longitudes3, moon_deg \in Longitudes3 :
        /\ fn = "none"
        /\ fn' = "calc_mrityu_sphuta"
        /\ args' = <<lagna_deg, sun_deg, moon_deg>>
        /\ ret' = calc_mrityu_sphuta(lagna_deg, sun_deg, moon_deg)

Call_calc_tithi_sphuta ==
    \E sun_deg \in Longitudes2, moon_deg \in Longitudes2 :
        /\ fn = "none"
        /\ fn' = "calc_tithi_sphuta"
        /\ args' = <<sun_deg, moon_deg>>
        /\ ret' = calc_tithi_sphuta(sun_deg, moon_deg)

Call_calc_chatusphuta ==
    \E lagna \in Longitudes5, sun \in Longitudes5, moon \in Longitudes5,
       gulika \in TemporalPoints :
        /\ fn = "none"
        /\ fn' = "calc_chatusphuta"
        /\ args' = <<lagna, sun, moon, gulika>>
        /\ ret' = calc_chatusphuta(lagna, sun, moon, gulika)

Call_calc_panchasphuta ==
    \E lagna \in Longitudes5, sun \in Longitudes5, moon \in Longitudes5,
       gulika \in TemporalPoints, mandi \in TemporalPoints :
        /\ fn = "none"
        /\ fn' = "calc_panchasphuta"
        /\ args' = <<lagna, sun, moon, gulika, mandi>>
        /\ ret' = calc_panchasphuta(lagna, sun, moon, gulika, mandi)

Call_calc_yoga_sphuta ==
    \E sun \in Longitudes2, moon \in Longitudes2 :
        /\ fn = "none"
        /\ fn' = "calc_yoga_sphuta"
        /\ args' = <<sun, moon>>
        /\ ret' = calc_yoga_sphuta(sun, moon)

Call_calc_avayoga_sphuta ==
    \E sun \in Longitudes2, moon \in Longitudes2 :
        /\ fn = "none"
        /\ fn' = "calc_avayoga_sphuta"
        /\ args' = <<sun, moon>>
        /\ ret' = calc_avayoga_sphuta(sun, moon)

Call_calc_gulika ==
    \E weekday \in Weekdays, sunrise_deg \in SunriseInputs :
        /\ fn = "none"
        /\ fn' = "calc_gulika"
        /\ args' = <<IntArg(weekday), sunrise_deg>>
        /\ ret' = calc_gulika(weekday, sunrise_deg)

Call_calc_mandi ==
    \E weekday \in Weekdays, sunrise_deg \in SunriseInputs :
        /\ fn = "none"
        /\ fn' = "calc_mandi"
        /\ args' = <<IntArg(weekday), sunrise_deg>>
        /\ ret' = calc_mandi(weekday, sunrise_deg)

\* the caller takes the result; the next call starts from scratch (the
\* functions keep no state between calls)
Done ==
    /\ fn # "none"
    /\ fn' = "none"
    /\ args' = <<>>
    /\ ret' = Nothing

Next ==
    \/ Call_normalize_deg
    \/ Call_deg_to_zodiac
    \/ Call_format_result
    \/ Call_calc_bhrigu_bindu
    \/ Call_calc_prana_sphuta
    \/ Call_calc_deha_sphuta
    \/ Call_calc_mrityu_sphuta
    \/ Call_calc_tithi_sphuta
    \/ Call_calc_chatusphuta
    \/ Call_calc_panchasphuta
    \/ Call_calc_yoga_sphuta
    \/ Call_calc_avayoga_sphuta
    \/ Call_calc_gulika
    \/ Call_calc_mandi
    \/ Done

Spec == Init /\ [][Next]_vars

\* ------------------------------------------------------------------------
\* Vocabulary of the properties
\* ------------------------------------------------------------------------
\* a finite value inside the half-open turn [0, 360)
InHalfOpenTurn(v) == IsFinite(v) /\ v.g >= 0 /\ v.g < Turn /\ (v.g = 0 => v.t >= 0)

\* equal but for a magnitude below the resolution of a double near 360
SameUpToRounding(a, b) == a.k = b.k /\ a.g = b.g

\* a finite value with no tiny part
OnGrid(v) == IsFinite(v) /\ v.t = 0

\* the degree of a finite value reduced to [0, 360) in integer arithmetic
TurnG(v) == v.g % Turn

\* the longitude arguments of the call in progress
DegreeArgs ==
    IF fn \in {"calc_gulika", "calc_mandi"} THEN {2} ELSE DOMAIN args

SphutaFns ==
    { "calc_bhrigu_bindu", "calc_prana_sphuta", "calc_deha_sphuta",
      "calc_mrityu_sphuta", "calc_tithi_sphuta", "calc_chatusphuta",
      "calc_panchasphuta", "calc_yoga_sphuta", "calc_avayoga_sphuta" }

\* the Sphuta function named f applied to the argument tuple a
Apply(f, a) ==
    CASE f = "calc_bhrigu_bindu" -> calc_bhrigu_bindu(a[1], a[2])
      [] f = "calc_prana_sphuta" -> calc_prana_sphuta(a[1], a[2], a[3])
      [] f = "calc_deha_sphuta" -> calc_deha_sphuta(a[1], a[2], a[3])
      [] f = "calc_mrityu_sphuta" -> calc_mrityu_sphuta(a[1], a[2], a[3])
      [] f = "calc_tithi_sphuta" -> calc_tithi_sphuta(a[1], a[2])
      [] f = "calc_chatusphuta" -> calc_chatusphuta(a[1], a[2], a[3], a[4])
      [] f = "calc_panchasphuta" -> calc_panchasphuta(a[1], a[2], a[3], a[4], a[5])
      [] f = "calc_yoga_sphuta" -> calc_yoga_sphuta(a[1], a[2])
      [] f = "calc_avayoga_sphuta" -> calc_avayoga_sphuta(a[1], a[2])

\* the argument tuple a with its i-th longitude moved by k whole turns
Shifted(a, i, k) == [a EXCEPT ![i] = Add(a[i], Deg(360 * k))]

Shifts == (0 - MaxK)..MaxK

\* ------------------------------------------------------------------------
\* C1: for every finite degree x, normalize_deg(x) lies in [0, 360), and
\* normalize_deg(x + 360*k) equals normalize_deg(x) for every integer k.
\* ------------------------------------------------------------------------
C1_NormalizeInRangeAndPeriodic ==
    (fn = "normalize_deg" /\ IsFinite(args[1])) =>
        /\ ret.exc = "none"
        /\ InHalfOpenTurn(ret.deg)
        /\ \A k \in Shifts :
              SameUpToRounding(normalize_deg(Add(args[1], Deg(360 * k))), ret.deg)

\* ------------------------------------------------------------------------
\* C3: for every finite input degree, deg_to_zodiac computes a sign index in
\* 0..11, a nakshatra index in 0..26 and a pada in 1..4; no lookup goes out
\* of range.
\* ------------------------------------------------------------------------
C3_DecodeTotal ==
    (fn = "deg_to_zodiac" /\ IsFinite(args[1])) =>
        /\ ret.exc = "none"
        /\ zodiac_index(normalize_deg(args[1])) \in 0..11
        /\ nak_index(normalize_deg(args[1])) \in 0..26
        /\ ret.pada \in 1..4

\* ------------------------------------------------------------------------
\* C5: for every weekday w in 0..6 and every sunrise degree s, calc_gulika
\* and calc_mandi return normalize(s + portion[w]*90/4) with the two portion
\* tables of the spec, a degree in [0, 360); calc_gulika(0, 90) is 247.5,
\* which decodes to Sagittarius, Mula, pada 3, 7 deg 30 min 0 sec.
\* ------------------------------------------------------------------------
C5_TemporalPoints ==
    /\ (fn \in {"calc_gulika", "calc_mandi"} /\ args[1].g \in 0..6 /\ IsFinite(args[2])) =>
          LET portion == IF fn = "calc_gulika" THEN 7 - args[1].g ELSE 6 - args[1].g
          IN  /\ ret.exc = "none"
              /\ InHalfOpenTurn(ret.deg)
              /\ ret.deg.g = (args[2].g + (portion * 90 * Unit) \div 4) % Turn
    /\ (fn = "calc_gulika" /\ args[1].g = 0 /\ args[2] = Deg(90)) =>
          ret = Return(Fin((495 * Unit) \div 2))
    /\ (fn = "format_result" /\ args[1] = Fin((495 * Unit) \div 2)) =>
          ret = ReturnTuple("7°30'0\"", "Sagittarius", "Mula", 3, NoValue)

\* ------------------------------------------------------------------------
\* C8: every core function given a non-finite degree (nan, +inf, -inf) fails
\* with an error and returns no value, normalize_deg, calc_gulika and
\* calc_mandi included.
\* ------------------------------------------------------------------------
C8_NonFiniteRejected ==
    (fn # "none" /\ \E i \in DegreeArgs : ~IsFinite(args[i])) => ret.exc # "none"

\* ------------------------------------------------------------------------
\* C2: each Sphuta function returns exactly format_result of its catalog
\* formula (Bhrigu Bindu (Moon+Rahu)/2, Prana Lagna+Sun+Moon, Deha
\* Lagna+Moon-Sun, Mrityu Lagna+Sun-Moon, Tithi Sun+Moon, Chatusphuta
\* Lagna+Sun+Moon+Gulika, PanchaSphuta Lagna+Sun+Moon+Gulika+Mandi, Yoga
\* Sun+Moon); Yoga and Tithi return identical tuples for every (sun, moon);
\* calc_bhrigu_bindu(10, 50) decodes to Taurus at 0 degrees.
\* ------------------------------------------------------------------------
CatalogFns == SphutaFns \ {"calc_avayoga_sphuta"}

\* the catalog formula in float arithmetic
CatalogDegree(f, a) ==
    CASE f = "calc_bhrigu_bindu" -> Div2(Add(a[1], a[2]))
      [] f = "calc_prana_sphuta" -> Add(Add(a[1], a[2]), a[3])
      [] f = "calc_deha_sphuta" -> Sub(Add(a[1], a[3]), a[2])
      [] f = "calc_mrityu_sphuta" -> Sub(Add(a[1], a[2]), a[3])
      [] f = "calc_tithi_sphuta" -> Add(a[1], a[2])
      [] f = "calc_chatusphuta" -> Add(Add(Add(a[1], a[2]), a[3]), a[4])
      [] f = "calc_panchasphuta" -> Add(Add(Add(Add(a[1], a[2]), a[3]), a[4]), a[5])
      [] f = "calc_yoga_sphuta" -> Add(a[1], a[2])

\* the catalog formula on grid longitudes, in integer arithmetic
CatalogGrid(f, a) ==
    CASE f = "calc_bhrigu_bindu" -> (a[1].g + a[2].g) \div 2
      [] f = "calc_prana_sphuta" -> a[1].g + a[2].g + a[3].g
      [] f = "calc_deha_sphuta" -> a[1].g + a[3].g - a[2].g
      [] f = "calc_mrityu_sphuta" -> a[1].g + a[2].g - a[3].g
      [] f = "calc_tithi_sphuta" -> a[1].g + a[2].g
      [] f = "calc_chatusphuta" -> a[1].g + a[2].g + a[3].g + a[4].g
      [] f = "calc_panchasphuta" -> a[1].g + a[2].g + a[3].g + a[4].g + a[5].g
      [] f = "calc_yoga_sphuta" -> a[1].g + a[2].g

C2_CatalogFormulas ==
    /\ fn \in CatalogFns => ret = format_result(CatalogDegree(fn, args))
    /\ (fn \in CatalogFns /\ \A i \in DOMAIN args : OnGrid(args[i])) =>
          ret = format_result(Fin(CatalogGrid(fn, args)))
    /\ fn = "calc_yoga_sphuta" => ret = calc_tithi_sphuta(args[1], args[2])
    /\ fn = "calc_tithi_sphuta" => ret = calc_yoga_sphuta(args[1], args[2])
    /\ (fn = "calc_bhrigu_bindu" /\ args[1] = Deg(10) /\ args[2] = Deg(50)) =>
          /\ ret.exc = "none"
          /\ ret.zodiac = "Taurus"
          /\ ret.dms = "0°0'0\""

C2_Witness ==
    /\ fn = "calc_bhrigu_bindu"
    /\ args = <<Deg(10), Deg(50)>>
    /\ ret.zodiac = "Taurus"

\* ------------------------------------------------------------------------
\* C4: the degree that calc_avayoga_sphuta decodes plus ((sun+moon) mod 360)
\* is congruent to 0 modulo 360; when (sun+moon) mod 360 = 0 the
\* intermediate 360 is normalized to 0 and the result is Aries, 0 deg 0 min
\* 0 sec, Ashwini, pada 1, never an out-of-range sign index.
\* ------------------------------------------------------------------------
C4_AvayogaComplement ==
    (fn = "calc_avayoga_sphuta" /\ IsFinite(args[1]) /\ IsFinite(args[2])) =>
        LET total == (args[1].g + args[2].g) % Turn
        IN  /\ ret.exc = "none"
            /\ \E D \in {(Turn - total) % Turn} :
                  /\ (D + total) % Turn = 0
                  /\ ret = format_result(Fin(D))
            /\ total = 0 => ret = ReturnTuple("0°0'0\"", "Aries", "Ashwini", 1, NoValue)

C4_Witness ==
    /\ fn = "calc_avayoga_sphuta"
    /\ args = <<Deg(100), Deg(260)>>
    /\ ret.zodiac = "Aries"
    /\ ret.dms = "0°0'0\""

\* ------------------------------------------------------------------------
\* C6: degree 0 decodes to Aries, Ashwini, pada 1, 0 deg 0 min 0 sec; every
\* degree in [0, 30) is in Aries and degree 30 exactly is in Taurus (sign i
\* is the half-open arc [30i, 30(i+1))); degree 360/27 exactly is in Bharani,
\* pada 1 (nakshatra i is the half-open arc [i*360/27, (i+1)*360/27)).
\* ------------------------------------------------------------------------
C6_DecodeBoundaries ==
    (fn \in {"deg_to_zodiac", "format_result"} /\ InHalfOpenTurn(args[1])) =>
        /\ ret.exc = "none"
        /\ args[1] = Deg(0) =>
              /\ ret.zodiac = "Aries" /\ ret.nakshatra = "Ashwini" /\ ret.pada = 1
              /\ fn = "format_result" => ret.dms = "0°0'0\""
        /\ ret.zodiac = "Aries" <=> args[1].g < 30 * Unit
        /\ args[1] = Deg(30) => ret.zodiac = "Taurus"
        /\ \A i \in 0..11 :
              (30 * i * Unit <= args[1].g /\ args[1].g < 30 * (i + 1) * Unit)
                  => ret.zodiac = ZODIAC_SIGNS[i + 1]
        /\ args[1] = Fin(NAK_SPAN.g) => (ret.nakshatra = "Bharani" /\ ret.pada = 1)
        /\ \A i \in 0..26 :
              (i * Turn <= 27 * args[1].g /\ 27 * args[1].g < (i + 1) * Turn)
                  => ret.nakshatra = NAKSHATRAS[i + 1]

C6_Witness ==
    /\ fn = "format_result"
    /\ args = <<Deg(30)>>
    /\ ret.zodiac = "Taurus"
    /\ ret.dms = "0°0'0\""

\* ------------------------------------------------------------------------
\* C7: calc_gulika and calc_mandi called with a weekday index outside 0..6
\* fail with an error (the missing table entry) for every sunrise degree
\* and never return a degree.
\* ------------------------------------------------------------------------
C7_WeekdayOutOfRange ==
    (fn \in {"calc_gulika", "calc_mandi"} /\ args[1].g \notin 0..6) =>
        ret = Raise("KeyError")

C7_Witness ==
    /\ fn = "calc_gulika"
    /\ args[1].g = 7
    /\ ret.exc = "KeyError"

C10_PeriodicInEveryLongitude ==
    fn \in SphutaFns =>
        \A i \in DOMAIN args, k \in Shifts : Apply(fn, Shifted(args, i, k)) = ret

\* C10 as amended: every Sphuta function other than calc_bhrigu_bindu returns
\* the same tuple when one input x is replaced by x + 360*k; calc_bhrigu_bindu,
\* which halves the sum, returns the same tuple when x is replaced by
\* x + 720*k.
C10_PeriodicButForBhriguBindu ==
    /\ fn \in SphutaFns \ {"calc_bhrigu_bindu"} =>
          \A i \in DOMAIN args, k \in Shifts : Apply(fn, Shifted(args, i, k)) = ret
    /\ fn = "calc_bhrigu_bindu" =>
          \A i \in DOMAIN args, k \in Shifts : Apply(fn, Shifted(args, i, 2 * k)) = ret

\* Moon at 370 instead of 10, Rahu at 50: Scorpio, opposite the Taurus of (10, 50)
C10_Witness ==
    /\ fn = "calc_bhrigu_bindu"
    /\ args = <<Deg(370), Deg(50)>>
    /\ ret.zodiac = "Scorpio"
    /\ calc_bhrigu_bindu(Deg(10), Deg(50)).zodiac = "Taurus"

====
